---- MODULE Spec2Model ----
(***************************************************************************)
(* Model of src/extensions/COMMANDS/SaveCommand.py (SaveCommand): the      *)
(* extraction/redaction worker saveworkerfunction, the helper nested_sort, *)
(* add_save_file_header and the stages of run.                             *)
(*                                                                         *)
(* JSON documents are ordered trees.  Every value is a node                *)
(*   [k |-> kind, n |-> name, c |-> children]                              *)
(* with kind "s" (scalar, n is its text), "l" (list, c its elements),      *)
(* "m" (dict, c its items in insertion order) and "e" (one dict item, n    *)
(* the key and c = <<value>>).                                             *)
(***************************************************************************)
EXTENDS Integers, Sequences, FiniteSets, TLC

\* ------------------------------------------------------------------------
\* Bounds of the model
\* ------------------------------------------------------------------------
MaxBatch == 2

MaxPassLen == 2

MaxMulti == 2

\* ------------------------------------------------------------------------
\* Documents
\* ------------------------------------------------------------------------
S(v) == [k |-> "s", n |-> v, c |-> <<>>]

L(elems) == [k |-> "l", n |-> "", c |-> elems]

M(items) == [k |-> "m", n |-> "", c |-> items]

E(key, val) == [k |-> "e", n |-> key, c |-> <<val>>]

Unbound == [k |-> "u", n |-> "", c |-> <<>>]

IsDict(d) == d.k = "m"

KeySeq(d) == [i \in 1..Len(d.c) |-> d.c[i].n]

KeySet(d) == {d.c[i].n : i \in 1..Len(d.c)}

\* key in d
HasKey(d, key) == IsDict(d) /\ key \in KeySet(d)

\* d[key]
Get(d, key) == d.c[CHOOSE i \in 1..Len(d.c) : d.c[i].n = key].c[1]

\* del d[key]
Del(d, key) == M(SelectSeq(d.c, LAMBDA e : e.n # key))

\* d[key] = val for a key already in d (the position of the item is kept)
Put(d, key, val) == M([i \in 1..Len(d.c) |-> IF d.c[i].n = key THEN E(key, val) ELSE d.c[i]])

\* bool(d)
Truthy(d) == IF d.k = "s" THEN d.n # "" ELSE d.c # <<>>

RECURSIVE HasPath(_, _)
\* d[p1][p2]...[pn] raises no KeyError
HasPath(d, p) ==
    IF p = <<>> THEN TRUE
    ELSE HasKey(d, Head(p)) /\ HasPath(Get(d, Head(p)), Tail(p))

RECURSIVE GetPath(_, _)
GetPath(d, p) == IF p = <<>> THEN d ELSE GetPath(Get(d, Head(p)), Tail(p))

RECURSIVE DelPath(_, _)
\* del d[p1][p2]...[pn]
DelPath(d, p) ==
    IF Len(p) = 1 THEN Del(d, Head(p))
    ELSE Put(d, Head(p), DelPath(Get(d, Head(p)), Tail(p)))

\* ------------------------------------------------------------------------
\* Names used by saveworkerfunction
\* ------------------------------------------------------------------------
hrefstring == "@odata.id"

typestring == "@odata.type"

AlwaysDrop == {"IPv4Addresses", "IPv6Addresses", "IPv6AddressPolicyTable", "MACAddress",
               "StaticNameServers", "AutoNeg", "FullDuplex", "SpeedMbps"}

DropIfSet == {"IPv6StaticAddresses", "IPv6StaticDefaultGateways", "IPv4StaticAddresses"}

Blocks == {"IPv4", "IPv6", "DHCPv6", "DHCPv4"}

SubFields == <<"DNSServers", "UseDNSServers">>

\* ------------------------------------------------------------------------
\* saveworkerfunction, lines 151-166: the path of every record
\* ------------------------------------------------------------------------
TopLevelLookup(content) == \A i \in 1..Len(content) : HasKey(content[i], hrefstring)

NestedLookup(content) ==
    \A i \in 1..Len(content) : HasPath(content[i], <<"links", "self", hrefstring>>)

PathOf(content, i) ==
    IF TopLevelLookup(content) THEN Get(content[i], hrefstring).n
    ELSE GetPath(content[i], <<"links", "self", hrefstring>>).n

\* ------------------------------------------------------------------------
\* saveworkerfunction, lines 177-206: one pass of the loop over the keys.
\* st = [values, typeselector, pathselector, err]
\* ------------------------------------------------------------------------
RECURSIVE NestedDrop(_, _, _)
\* lines 201-206, for the sub-fields SubFields[j..]
NestedDrop(st, dictentry, j) ==
    IF j > Len(SubFields) \/ st.err # "none" THEN st
    ELSE LET sub == SubFields[j]
             blk == Get(st.values, dictentry)
         IN  IF HasKey(blk, sub)
             THEN LET v1 == Put(st.values, dictentry, Del(blk, sub))
                      mirror == <<"Oem", "Hpe", dictentry, sub>>
                  IN  IF HasPath(v1, mirror)
                      THEN NestedDrop([st EXCEPT !.values = DelPath(v1, mirror)], dictentry, j + 1)
                      ELSE [st EXCEPT !.values = v1, !.err = "KeyError"]
             ELSE NestedDrop(st, dictentry, j + 1)

DictEntryStep(st, dictentry, path) ==
    LET s1 == IF dictentry = typestring
              THEN [st EXCEPT !.typeselector = Get(st.values, dictentry).n,
                              !.pathselector = path,
                              !.values = Del(st.values, dictentry)]
              ELSE st
        s2 == IF dictentry \in AlwaysDrop
              THEN [s1 EXCEPT !.values = Del(s1.values, dictentry)]
              ELSE s1
        s3 == IF dictentry \in DropIfSet /\ Truthy(Get(s2.values, dictentry))
              THEN [s2 EXCEPT !.values = Del(s2.values, dictentry)]
              ELSE s2
    IN  IF dictentry \in Blocks THEN NestedDrop(s3, dictentry, 1) ELSE s3

RECURSIVE DictEntryLoop(_, _, _, _)
\* for dictentry in list(values.keys()), from the j-th key on
DictEntryLoop(st, keys, j, path) ==
    IF j > Len(keys) \/ st.err # "none" THEN st
    ELSE DictEntryLoop(DictEntryStep(st, keys[j], path), keys, j + 1, path)

\* the property mapping of one record after the loop over its keys
Redact(values, path) ==
    DictEntryLoop([values |-> values, typeselector |-> "", pathselector |-> "",
                   err |-> "none"], KeySeq(values), 1, path)

\* tempcontents[typeselector] = {pathselector: values}
Entry(typeselector, pathselector, values) ==
    M(<<E(typeselector, M(<<E(pathselector, values)>>))>>)

\* lines 208-218: what is appended for one record.  tempcontents is the
\* binding left by the previous records (Unbound before the first)
ContentStep(acc, values, path) ==
    LET st == Redact(values, path)
    IN  IF st.err # "none" THEN [acc EXCEPT !.err = st.err]
        ELSE IF Truthy(st.values)
        THEN IF st.typeselector # "" /\ st.pathselector # ""
             THEN LET t == Entry(st.typeselector, st.pathselector, st.values)
                  IN  [acc EXCEPT !.tempcontents = t, !.templist = Append(@, t)]
             ELSE [acc EXCEPT !.err = "InvalidFileFormattingError"]
        ELSE IF acc.tempcontents = Unbound
        THEN [acc EXCEPT !.err = "UnboundLocalError"]
        ELSE [acc EXCEPT !.templist = Append(@, acc.tempcontents)]

RECURSIVE ContentLoop(_, _, _)
\* for content in contents, from the i-th record on
ContentLoop(acc, content, i) ==
    IF i > Len(content) \/ acc.err # "none" THEN acc
    ELSE ContentLoop(ContentStep(acc, content[i], PathOf(content, i)), content, i + 1)

\* saveworkerfunction(instances): [err, list]; list is meaningful when err = "none"
saveworkerfunction(content) ==
    IF ~TopLevelLookup(content) /\ ~NestedLookup(content)
    THEN [err |-> "iLORisCorruptionError", list |-> <<>>]
    ELSE LET r == ContentLoop([tempcontents |-> Unbound, templist |-> <<>>, err |-> "none"],
                              content, 1)
         IN  [err |-> r.err, list |-> IF r.err = "none" THEN r.templist ELSE <<>>]

\* ------------------------------------------------------------------------
\* nested_sort, lines 222-235
\* ------------------------------------------------------------------------
\* the keys of the model in the order of Python's string comparison
KeyOrder ==
    <<"/redfish/v1/Managers/1/EthernetInterfaces/1/", "/redfish/v1/Systems/1/Bios/",
      "@odata.id", "@odata.type", "AttributeX", "Bios.", "Comments", "DHCPv4",
      "DNSServers", "EthernetInterface.", "Hpe", "IPv4", "IPv4StaticAddresses", "IPv6",
      "MACAddress", "Oem", "UseDNSServers", "a", "b", "links", "self">>

Rank(key) == CHOOSE i \in 1..Len(KeyOrder) : KeyOrder[i] = key

\* sorted(list(data.items()), key=lambda x: x[0])
SortedItems(items) ==
    LET n == Len(items)
        pos(i) == Cardinality({j \in 1..n : Rank(items[j].n) < Rank(items[i].n)}) + 1
    IN  [p \in 1..n |-> items[CHOOSE i \in 1..n : pos(i) = p]]

RECURSIVE nested_sort(_)
nested_sort(data) ==
    M(SortedItems([i \in 1..Len(data.c) |->
          IF IsDict(data.c[i].c[1])
          THEN E(data.c[i].n, nested_sort(data.c[i].c[1]))
          ELSE data.c[i]]))

\* ------------------------------------------------------------------------
\* Records the remote system can return (getprops), used as inputs
\* ------------------------------------------------------------------------
PathA == "/redfish/v1/Systems/1/Bios/"

PathB == "/redfish/v1/Managers/1/EthernetInterfaces/1/"

Dns == L(<<S("10.0.0.53")>>)

Yes == S("true")

\* where the record carries its path
IdShapes ==
    { <<E(hrefstring, S(PathA))>>,
      <<E(hrefstring, S(PathB))>>,
      <<E("links", M(<<E("self", M(<<E(hrefstring, S(PathB))>>))>>))>>,
      <<E(hrefstring, S(""))>>,
      <<>> }

\* the type field of the record
TypeShapes == { <<E(typestring, S("Bios."))>>, <<E(typestring, S(""))>>, <<>> }

\* the properties of the record
Payloads ==
    { <<>>,
      <<E("AttributeX", S("1"))>>,
      <<E("MACAddress", S("aa:bb"))>>,
      <<E("AttributeX", S("1")), E("MACAddress", S("aa:bb"))>>,
      <<E("IPv4StaticAddresses", L(<<>>))>>,
      <<E("IPv4StaticAddresses", L(<<S("10.0.0.9")>>)), E("AttributeX", S("1"))>>,
      <<E("IPv4", M(<<E("DNSServers", Dns), E("UseDNSServers", Yes)>>)),
        E("Oem", M(<<E("Hpe", M(<<E("IPv4", M(<<E("DNSServers", Dns),
                                               E("UseDNSServers", Yes)>>))>>))>>))>>,
      <<E("IPv4", M(<<E("DNSServers", Dns)>>))>>,
      <<E("IPv4", M(<<E("DNSServers", Dns)>>)), E("Oem", M(<<>>))>>,
      <<E("DHCPv4", M(<<E("UseDNSServers", Yes)>>)), E("Oem", M(<<E("Hpe", M(<<>>))>>))>>,
      <<E("IPv6", M(<<E("DNSServers", Dns), E("UseDNSServers", Yes)>>)),
        E("Oem", M(<<E("Hpe", M(<<E("IPv6", M(<<E("DNSServers", Dns)>>))>>))>>))>> }

Records == {M(id \o ty \o pl) : id \in IdShapes, ty \in TypeShapes, pl \in Payloads}

SeqsUpTo(set, n) == UNION {[1..m -> set] : m \in 0..n}

\* the lists of at most n records
Batches(n) == SeqsUpTo(Records, n)

\* ------------------------------------------------------------------------
\* Documents given to nested_sort
\* ------------------------------------------------------------------------
MaxListLen == 1

Scalars == {S("1"), S("2")}

\* the dicts over the keys a, b with values in vals, in every insertion order
DictsOver(vals) ==
    {M(<<>>)}
        \cup {M(<<E(key, v)>>) : key \in {"a", "b"}, v \in vals}
        \cup {M(<<E(k1, v1), E(k2, v2)>>) :
                  k1 \in {"a"}, k2 \in {"b"}, v1 \in vals, v2 \in vals}
        \cup {M(<<E(k1, v1), E(k2, v2)>>) :
                  k1 \in {"b"}, k2 \in {"a"}, v1 \in vals, v2 \in vals}

FlatDicts == DictsOver(Scalars)

\* dicts of scalars, flat dicts and lists of at most n flat dicts
Docs(n) == DictsOver(Scalars \cup FlatDicts \cup {L(q) : q \in SeqsUpTo(FlatDicts, n)})

\* ------------------------------------------------------------------------
\* run: the command line, the remote system, the header, the encoder
\* ------------------------------------------------------------------------
Types == {"Bios.", "EthernetInterface."}

\* the records of each type: one Bios record in two key orders; an
\* EthernetInterface record, and one that lost its path
RunRecords(type) ==
    IF type = "Bios."
    THEN { M(<<E(hrefstring, S(PathA)), E(typestring, S("Bios.")), E("AttributeX", S("1")),
               E("MACAddress", S("aa:bb"))>>),
           M(<<E("MACAddress", S("aa:bb")), E("AttributeX", S("1")),
               E(typestring, S("Bios.")), E(hrefstring, S(PathA))>>) }
    ELSE { M(<<E(hrefstring, S(PathB)), E(typestring, S("EthernetInterface.")),
               E("AttributeX", S("2")), E("MACAddress", S("aa:bb"))>>),
           M(<<E(typestring, S("EthernetInterface.")), E("AttributeX", S("1"))>>) }

\* what getprops returns for each type
Remotes ==
    {r \in [Types -> UNION {SeqsUpTo(RunRecords(t), MaxPassLen) : t \in Types}] :
         \A t \in Types : r[t] \in SeqsUpTo(RunRecords(t), MaxPassLen)}

\* --selector T, or --multisave T1,T2,...: the types in request order
Requests == UNION {[1..m -> Types] : m \in 1..(MaxMulti + 1)}

\* --filter values, each a string cut at its quotes and "=" signs
Filters ==
    { <<>>,
      <<"AttributeX", "=", "1">>,
      <<"'", "AttributeX", "=", "1", "'">>,
      <<"AttributeX">>,
      <<"AttributeX", "=", "1", "=", "2">>,
      <<"'">> }

\* --encryption values ("" when the option is not given)
Keys == {"", "k"}

\* create_save_header()
Header == M(<<E("Comments", M(<<E("b", S("2")), E("a", S("1"))>>))>>)

\* lines 88-93: quotes stripped, then exactly one "=" (else the unpacking raises)
StripQuotes(f) ==
    IF Len(f) >= 1 /\ f[1] = f[Len(f)] /\ f[1] \in {"'", "\""}
    THEN SubSeq(f, 2, Len(f) - 1)
    ELSE f

FilterParses(f) == Cardinality({i \in 1..Len(StripQuotes(f)) : StripQuotes(f)[i] = "="}) = 1

\* (sel, val) = options.filter.split("=")
FilterSel(f) == StripQuotes(f)[1]

FilterVal(f) == StripQuotes(f)[3]

\* rdmc.app.select(fltrvals=(sel, val)): the positions of the instances whose
\* attribute sel is val; every position without a filter
Select(batch, f) ==
    IF f = <<>> THEN 1..Len(batch)
    ELSE {i \in 1..Len(batch) :
              HasKey(batch[i], FilterSel(f)) /\ Get(batch[i], FilterSel(f)) = S(FilterVal(f))}

\* the instances select returns: the records at the picked positions, in order
RECURSIVE Pick(_, _, _)
Pick(batch, picked, i) ==
    IF i > Len(batch) THEN <<>>
    ELSE (IF i \in picked THEN <<batch[i]>> ELSE <<>>) \o Pick(batch, picked, i + 1)

\* add_save_file_header with the header appended after the Entries
add_save_file_header_last(cont) == cont \o <<Header>>

\* add_save_file_header, lines 272-286
add_save_file_header(cont) == <<Header>> \o cont

\* json.dumps(contents, sort_keys=...): the text as a sequence of tokens
RECURSIVE JsonDumps(_, _)
RECURSIVE JsonDumpsAll(_, _, _)
JsonDumps(d, sort_keys) ==
    IF d.k = "s" THEN <<d.n>>
    ELSE IF d.k = "l" THEN <<"[">> \o JsonDumpsAll(d.c, 1, sort_keys) \o <<"]">>
    ELSE IF d.k = "m"
    THEN <<"{">> \o JsonDumpsAll(IF sort_keys THEN SortedItems(d.c) ELSE d.c, 1, sort_keys)
               \o <<"}">>
    ELSE <<d.n, ":">> \o JsonDumps(d.c[1], sort_keys)

JsonDumpsAll(ds, i, sort_keys) ==
    IF i > Len(ds) THEN <<>>
    ELSE JsonDumps(ds[i], sort_keys) \o JsonDumpsAll(ds, i + 1, sort_keys)

\* Encryption().encrypt_file(text, key)
encrypt_file(text, key) == <<"encrypted with", key>> \o text

\* lines 122-136: what is written to the file
Encoded(cont, key) ==
    IF key # ""
    THEN encrypt_file(JsonDumps(L(cont), FALSE), key)
    ELSE JsonDumps(L(cont), TRUE)

\* the destination before the save
OldFile == [opens |-> 0, text |-> <<"previous save">>]

\* ------------------------------------------------------------------------
\* State
\* ------------------------------------------------------------------------
VARIABLES
    content,      \* saveworkerfunction: what getprops returned
    extracted,    \* saveworkerfunction: its outcome, Pending before the call
    data,         \* nested_sort: its argument
    sorted,       \* nested_sort: its result, NotSorted before the call
    pc,           \* run: the next stage
    remote,       \* run: the records of each type on the remote system
    options,      \* run: the parsed command line
    selector,     \* run: the type currently selected (rdmc.app.selector)
    picked,       \* run: the positions select returned for the primary pass
    step,         \* run: how many multisave types are done
    contents,     \* run: contents
    outfile,      \* run: the destination file
    rc            \* run: the return code or the exception raised

vars == <<content, extracted, data, sorted, pc, remote, options, selector, picked, step,
          contents, outfile, rc>>

runvars == <<pc, remote, options, selector, picked, step, contents, outfile, rc>>

Pending == [err |-> "pending", list |-> <<>>]

NotSorted == S("not sorted")

NoOptions == [selector |-> "", multisave |-> <<>>, encryption |-> ""]

\* the parts of the state a specification does not use
IdleExtract == content = <<>> /\ extracted = Pending

IdleSort == data = M(<<>>) /\ sorted = NotSorted

IdleRun ==
    /\ pc = "idle" /\ remote = [t \in Types |-> <<>>] /\ options = NoOptions
    /\ selector = "" /\ picked = {} /\ step = 0 /\ contents = <<>>
    /\ outfile = OldFile /\ rc = "none"

\* ------------------------------------------------------------------------
\* saveworkerfunction applied to every batch
\* ------------------------------------------------------------------------
InitExtract ==
    /\ content \in Batches(MaxBatch)
    /\ extracted = Pending
    /\ IdleSort /\ IdleRun

Extract ==
    /\ extracted = Pending
    /\ extracted' = saveworkerfunction(content)
    /\ UNCHANGED <<content, data, sorted, runvars>>

NextExtract == Extract

SpecExtract == InitExtract /\ [][NextExtract]_vars

\* ------------------------------------------------------------------------
\* nested_sort applied to every document
\* ------------------------------------------------------------------------
InitSort ==
    /\ data \in Docs(MaxListLen)
    /\ sorted = NotSorted
    /\ IdleExtract /\ IdleRun

Sort ==
    /\ sorted = NotSorted
    /\ sorted' = nested_sort(data)
    /\ UNCHANGED <<data, content, extracted, runvars>>

NextSort == Sort

SpecSort == InitSort /\ [][NextSort]_vars

\* ------------------------------------------------------------------------
\* run, lines 60-142, stage by stage
\* ------------------------------------------------------------------------
Init ==
    /\ pc = "start"
    /\ remote \in Remotes
    /\ options = NoOptions
    /\ selector = "" /\ picked = {} /\ step = 0 /\ contents = <<>>
    /\ outfile = OldFile
    /\ rc = "none"
    /\ IdleExtract /\ IdleSort

Raise(err) == pc' = "done" /\ rc' = err

\* lines 80-83: savevalidation (multisave split into the selector and the
\* rest, one filename at most) and the check that no argument is left
Validation ==
    /\ pc = "start"
    /\ \E req \in Requests, key \in Keys, filenames \in 0..2, args \in BOOLEAN :
           IF filenames > 1 \/ args
           THEN Raise("InvalidCommandLineError") /\ UNCHANGED <<options, selector>>
           ELSE /\ options' = [selector |-> Head(req), multisave |-> Tail(req),
                                encryption |-> key]
                /\ selector' = Head(req)
                /\ pc' = "primary"
                /\ rc' = rc
    /\ UNCHANGED <<remote, picked, step, contents, outfile, content, extracted, data, sorted>>

\* lines 86-109: the filter, select, and the primary pass
PrimaryPass ==
    /\ pc = "primary"
    /\ \E f \in Filters :
           IF f # <<>> /\ ~FilterParses(f)
           THEN Raise("InvalidCommandLineError") /\ UNCHANGED <<picked, contents>>
           ELSE /\ picked' = Select(remote[selector], f)
                /\ LET r == saveworkerfunction(Pick(remote[selector], picked', 1))
                   IN  IF r.err # "none"
                       THEN Raise(r.err) /\ contents' = contents
                       ELSE pc' = "multisave" /\ rc' = rc /\ contents' = r.list
    /\ UNCHANGED <<remote, options, selector, step, outfile, content, extracted, data, sorted>>

\* lines 111-114: one turn of the loop over options.multisave
MultisavePass ==
    /\ pc = "multisave"
    /\ step < Len(options.multisave)
    /\ step' = step + 1
    /\ selector' = options.multisave[step + 1]
    /\ LET r == saveworkerfunction(remote[selector'])
       IN  IF r.err # "none"
           THEN Raise(r.err) /\ contents' = contents
           ELSE pc' = pc /\ rc' = rc /\ contents' = contents \o r.list
    /\ UNCHANGED <<remote, options, picked, outfile, content, extracted, data, sorted>>

\* lines 116-120
Assemble ==
    /\ pc = "multisave"
    /\ step = Len(options.multisave)
    /\ IF contents = <<>>
       THEN Raise("NothingSelectedError") /\ contents' = contents
       ELSE pc' = "open" /\ rc' = rc /\ contents' = add_save_file_header(contents)
    /\ UNCHANGED <<remote, options, selector, picked, step, outfile, content, extracted,
                   data, sorted>>

\* lines 123, 131: open(self.filename, "w"/"wb") truncates the file
OpenOutfile ==
    /\ pc = "open"
    /\ outfile' = [opens |-> outfile.opens + 1, text |-> <<>>]
    /\ pc' = "write"
    /\ UNCHANGED <<remote, options, selector, picked, step, contents, rc, content,
                   extracted, data, sorted>>

\* lines 124-136, inside the with block: json.dumps and encrypt_file run, and
\* may raise, after the file is open; then the text is written
WriteOutfile ==
    /\ pc = "write"
    /\ \E raises \in BOOLEAN :
           IF raises
           THEN Raise("EncodingError") /\ outfile' = outfile
           ELSE /\ outfile' = [outfile EXCEPT !.text = Encoded(contents, options.encryption)]
                /\ pc' = "written"
                /\ rc' = rc
    /\ UNCHANGED <<remote, options, selector, picked, step, contents, content, extracted,
                   data, sorted>>

\* lines 137-142
Finish ==
    /\ pc = "written"
    /\ Raise("SUCCESS")
    /\ UNCHANGED <<remote, options, selector, picked, step, contents, outfile, content,
                   extracted, data, sorted>>

Next ==
    \/ Validation
    \/ PrimaryPass
    \/ MultisavePass
    \/ Assemble
    \/ OpenOutfile
    \/ WriteOutfile
    \/ Finish

Spec == Init /\ [][Next]_vars

\* ------------------------------------------------------------------------
\* Reference notions the properties of saveworkerfunction are stated with
\* ------------------------------------------------------------------------
NestedHref == <<"links", "self", hrefstring>>

\* the record carries its path under at least one of the two conventions
HasIdentity(rec) == HasKey(rec, hrefstring) \/ HasPath(rec, NestedHref)

\* the two conventions tried in order, record by record
RefPath(rec) ==
    IF HasKey(rec, hrefstring) THEN Get(rec, hrefstring).n ELSE GetPath(rec, NestedHref).n

RefType(rec) == IF HasKey(rec, typestring) THEN Get(rec, typestring).n ELSE ""

\* the top-level keys that redaction removes
RedactedKeys(rec) ==
    {key \in KeySet(rec) : key \in AlwaysDrop \/ (key \in DropIfSet /\ Truthy(Get(rec, key)))}

\* the top-level keys that are properties: neither identity nor redacted
RefKeys(rec) == (KeySet(rec) \ RedactedKeys(rec)) \ {typestring, hrefstring}

\* nothing but identity is left of the record after redaction
EmptyAfterRedaction(rec) == RefKeys(rec) \ {"links"} = {}

\* every block that holds a sub-field has it mirrored under Oem.Hpe
MirrorsComplete(rec) ==
    \A b \in Blocks : \A j \in 1..Len(SubFields) :
        (HasKey(rec, b) /\ HasKey(Get(rec, b), SubFields[j]))
            => HasPath(rec, <<"Oem", "Hpe", b, SubFields[j]>>)

EntryType(entry) == entry.c[1].n

EntryPath(entry) == entry.c[1].c[1].c[1].n

EntryProps(entry) == entry.c[1].c[1].c[1].c[1]

Extracted == extracted # Pending

Indices == 1..Len(content)

\* C2: a record with identity whose properties are empty after identity
\* removal and redaction contributes no Entry and raises no error.  Stated
\* for the batches whose records all carry a top-level path, a non-empty
\* type selector and complete mirrors, so that no other error can occur:
\* extraction succeeds and returns exactly one Entry per record that has
\* properties left.
C2_EmptyRecordContributesNothing ==
    (/\ Extracted
     /\ \A i \in Indices : /\ HasKey(content[i], hrefstring)
                           /\ RefPath(content[i]) # ""
                           /\ RefType(content[i]) # ""
                           /\ MirrorsComplete(content[i])
     /\ \E i \in Indices : EmptyAfterRedaction(content[i]))
    => /\ extracted.err = "none"
       /\ Len(extracted.list) = Cardinality({i \in Indices : ~EmptyAfterRedaction(content[i])})

\* C3: extraction fails with iLORisCorruptionError if and only if some record
\* of the batch has its path under neither convention.
C3_CorruptionIffRecordWithoutIdentity ==
    Extracted =>
        ((extracted.err = "iLORisCorruptionError")
            <=> (\E i \in Indices : ~HasIdentity(content[i])))

\* a record with both identity fields and at least one property left
Complete(rec) ==
    /\ HasIdentity(rec) /\ RefPath(rec) # ""
    /\ RefType(rec) # ""
    /\ ~EmptyAfterRedaction(rec)

\* a record with a path and a property left, but no or an empty type selector
Untyped(rec) ==
    /\ HasIdentity(rec) /\ RefPath(rec) # ""
    /\ RefType(rec) = ""
    /\ ~EmptyAfterRedaction(rec)

\* C4: for a batch of records that each have both identity fields and a
\* property left, extraction returns one Entry per record, in input order,
\* keyed by the record's type selector and path; when one of the records
\* has no or an empty type selector instead, extraction fails with
\* InvalidFileFormattingError.
C4_OneEntryPerRecordInOrder ==
    /\ (Extracted /\ \A i \in Indices : Complete(content[i]))
       => /\ extracted.err = "none"
          /\ Len(extracted.list) = Len(content)
          /\ \A i \in Indices : /\ EntryType(extracted.list[i]) = RefType(content[i])
                                /\ EntryPath(extracted.list[i]) = RefPath(content[i])
    /\ (/\ Extracted
        /\ \A i \in Indices : Complete(content[i]) \/ Untyped(content[i])
        /\ \E i \in Indices : Untyped(content[i]))
       => extracted.err = "InvalidFileFormattingError"

\* C6: for every record and block that holds DNSServers or UseDNSServers,
\* redaction raises no error and the sub-field is afterwards absent from the
\* block and from Oem.Hpe.block, whether or not the mirror exists.
C6_NestedRedactionNeverFails ==
    (Extracted /\ extracted.err # "iLORisCorruptionError")
    => \A i \in Indices : \A b \in Blocks : \A j \in 1..Len(SubFields) :
           (HasKey(content[i], b) /\ HasKey(Get(content[i], b), SubFields[j]))
           => LET st == Redact(content[i], PathOf(content, i))
              IN  /\ st.err = "none"
                  /\ ~HasPath(st.values, <<b, SubFields[j]>>)
                  /\ ~HasPath(st.values, <<"Oem", "Hpe", b, SubFields[j]>>)

\* C7: the top-level keys of every emitted property mapping are the input
\* keys minus the always-drop fields, minus the non-empty static lists,
\* minus the identity fields; every other field outside the nested
\* redaction keeps its value.
C7_TopLevelRedactionIsFieldRemoval ==
    (Extracted /\ extracted.err = "none" /\ Len(extracted.list) = Len(content))
    => \A i \in Indices :
           LET props == EntryProps(extracted.list[i])
           IN  /\ KeySet(props) = RefKeys(content[i])
               /\ \A key \in KeySet(props) \ (Blocks \cup {"Oem"}) :
                      HasKey(content[i], key) /\ Get(props, key) = Get(content[i], key)

\* C8: the property mapping of an emitted Entry holds neither the type
\* selector field nor the path identity, top-level or under links/self.
C8_IdentityOnlyAsMetadata ==
    (Extracted /\ extracted.err = "none")
    => \A i \in 1..Len(extracted.list) :
           LET props == EntryProps(extracted.list[i])
           IN  /\ ~HasKey(props, typestring)
               /\ ~HasKey(props, hrefstring)
               /\ ~HasPath(props, NestedHref)

\* ------------------------------------------------------------------------
\* Reference notions the properties of run and nested_sort are stated with
\* ------------------------------------------------------------------------
\* the passes of a save over the remote state r, in request order: the
\* primary selection, then each multisave type as listed
PassResults(r) ==
    [i \in 1..(1 + Len(options.multisave)) |->
        IF i = 1 THEN saveworkerfunction(Pick(r[options.selector], picked, 1))
        ELSE saveworkerfunction(r[options.multisave[i - 1]])]

RECURSIVE Flatten(_, _)
\* the Entries of the passes i.. one after the other
Flatten(passes, i) ==
    IF i > Len(passes) THEN <<>> ELSE passes[i].list \o Flatten(passes, i + 1)

AllPassesOk(passes) == \A i \in 1..Len(passes) : passes[i].err = "none"

Assembled == pc \in {"open", "write", "written"} \/ (pc = "done" /\ rc \in {"SUCCESS", "EncodingError"})

\* C1: a save that ends with an error has not opened, truncated or written
\* the destination file; its content changes only in a save that ends with
\* SUCCESS.
C1_AllOrNothing == (pc = "done" /\ rc # "SUCCESS") => outfile = OldFile

\* C5: when the passes yield no Entry the save fails with
\* NothingSelectedError and no header is added; otherwise the snapshot is
\* the header followed by the Entries of the passes in request order, the
\* header being element zero and occurring once.
C5_SnapshotAssembly ==
    LET passes == PassResults(remote)
        flat == Flatten(passes, 1)
    IN  /\ Assembled =>
               /\ AllPassesOk(passes) /\ flat # <<>>
               /\ contents = <<Header>> \o flat
               /\ contents[1] = Header
               /\ \A i \in 2..Len(contents) : contents[i] # Header
        /\ (pc = "done" /\ rc = "NothingSelectedError") =>
               AllPassesOk(passes) /\ flat = <<>> /\ contents = <<>>
        /\ (pc = "done" /\ rc # "InvalidCommandLineError" /\ AllPassesOk(passes) /\ flat = <<>>) =>
               rc = "NothingSelectedError"

\* a successful save of three passes, the primary one with two Entries
C5_Witness ==
    /\ pc = "done" /\ rc = "SUCCESS"
    /\ Len(options.multisave) = 2
    /\ options.multisave[1] # options.multisave[2]
    /\ Len(PassResults(remote)[1].list) = 2
    /\ \A i \in 1..3 : PassResults(remote)[i].list # <<>>

RECURSIVE Canon(_)
\* the document with the keys of every dict in it, at any depth and inside
\* lists, in ascending order
Canon(d) ==
    IF d.k = "s" THEN d
    ELSE IF d.k = "m"
    THEN M(SortedItems([i \in 1..Len(d.c) |-> E(d.c[i].n, Canon(d.c[i].c[1]))]))
    ELSE L([i \in 1..Len(d.c) |-> Canon(d.c[i])])

RECURSIVE KeysAscendingEverywhere(_)
KeysAscendingEverywhere(d) ==
    IF d.k = "s" THEN TRUE
    ELSE IF d.k = "m"
    THEN /\ \A i \in 1..Len(d.c) : \A j \in 1..Len(d.c) :
                i < j => Rank(d.c[i].n) < Rank(d.c[j].n)
         /\ \A i \in 1..Len(d.c) : KeysAscendingEverywhere(d.c[i].c[1])
    ELSE \A i \in 1..Len(d.c) : KeysAscendingEverywhere(d.c[i])

\* C9: in the result of nested_sort every dict, at any depth and inside
\* lists, has its keys ascending; sorting the result again changes nothing;
\* two documents of the same content in different key orders sort alike.
C9_CanonicalSort ==
    sorted # NotSorted =>
        /\ KeysAscendingEverywhere(sorted)
        /\ nested_sort(sorted) = sorted
        /\ \A d2 \in Docs(MaxListLen) : Canon(d2) = Canon(data) => nested_sort(d2) = sorted

\* the same remote state, its records arriving in other key orders
SameContent(r2, r) ==
    \A t \in Types :
        /\ Len(r2[t]) = Len(r[t])
        /\ \A i \in 1..Len(r[t]) : Canon(r2[t][i]) = Canon(r[t][i])

\* the text json.dumps makes of a snapshot, handed to the file or the cipher
SerializedText(cont) == JsonDumps(L(cont), options.encryption = "")

\* C10: in a successful save the snapshot is sorted before it is serialized:
\* a save of the same state whose records arrive in another key order
\* serializes to the same text, with or without an encryption key.
C10_SortedBeforeEncoding ==
    (pc = "done" /\ rc = "SUCCESS") =>
        \A r2 \in Remotes :
            SameContent(r2, remote) =>
                SerializedText(add_save_file_header(Flatten(PassResults(r2), 1)))
                    = SerializedText(contents)

====
